---- MODULE Spec2Model ----
(***************************************************************************)
(* A model of the Azure adapter: RequestAdapter (request_adapter.py) and   *)
(* AzureAdapter (adapter.py).                                              *)
(*                                                                         *)
(* Python values are tagged records:                                       *)
(*   None                      [t |-> "none"]                              *)
(*   a str                     [t |-> "str",  s |-> <<characters>>]        *)
(*   a str used only as a token (role, id, name)                           *)
(*                             [t |-> "sym",  a |-> "token"]               *)
(*   an int                    [t |-> "int",  n |-> 0..]                   *)
(*   a list                    [t |-> "list", items |-> <<values>>]        *)
(*   a dict (insertion order)  [t |-> "dict", kv |-> <<[k, v], ...>>]      *)
(* A string the code slices, joins, matches or compares by content is a    *)
(* sequence of one-character strings.                                      *)
(***************************************************************************)
EXTENDS Integers, Sequences, FiniteSets, TLC

VARIABLES
    inbound_model,  \* AzureAdapter.inbound_model, one attribute of the shared adapter
    settings,       \* current_app.config
    req,            \* req[r]: the JSON payload of inbound request r
    pc,             \* pc[r]: where request r's forward() call stands
    kwargs,         \* kwargs[r]: forward's local request_kwargs
    built,          \* built[r]: the body as it was when adapt returned
    recorded,       \* recorded[r]: the body as it was handed to record_payload
    calls,          \* calls[r]: outbound requests.request calls issued for r
    resp,           \* resp[r]: what requests.request gave back
    outcome,        \* outcome[r]: how forward() ended for the caller
    fn,             \* the function a single-call specification applies
    arg,            \* its argument
    ret             \* its result

fwdvars == <<inbound_model, settings, req, pc, kwargs, built, recorded, calls, resp, outcome>>
callvars == <<fn, arg, ret>>
vars == <<inbound_model, settings, req, pc, kwargs, built, recorded, calls, resp, outcome, fn, arg, ret>>

----------------------------------------------------------------------------
(* Python values *)

None == [t |-> "none"]
Str(s) == [t |-> "str", s |-> s]
Sym(a) == [t |-> "sym", a |-> a]
Num(n) == [t |-> "int", n |-> n]
List(items) == [t |-> "list", items |-> items]
Dict(kv) == [t |-> "dict", kv |-> kv]
KV(k, v) == [k |-> k, v |-> v]

\* bool(v)
Truthy(v) ==
    CASE v.t = "none" -> FALSE
      [] v.t = "str" -> v.s /= <<>>
      [] v.t = "sym" -> TRUE
      [] v.t = "int" -> v.n /= 0
      [] v.t = "list" -> v.items /= <<>>
      [] v.t = "dict" -> v.kv /= <<>>
      [] OTHER -> TRUE

\* a or b
PyOr(a, b) == IF Truthy(a) THEN a ELSE b

\* d.get(k) on a dict d
Get(d, k) ==
    IF \E i \in 1..Len(d.kv) : d.kv[i].k = k
    THEN d.kv[CHOOSE i \in 1..Len(d.kv) : d.kv[i].k = k].v
    ELSE None

DigitChars == <<"0", "1", "2", "3", "4", "5", "6", "7", "8", "9">>

RECURSIVE Digits(_)
Digits(n) ==
    IF n < 10 THEN <<DigitChars[n + 1]>>
    ELSE Digits(n \div 10) \o <<DigitChars[(n % 10) + 1]>>

S_None == <<"N", "o", "n", "e">>

\* str(v) of a value that is None, a str or a non-negative int
PyStr(v) ==
    CASE v.t = "none" -> S_None
      [] v.t = "str" -> v.s
      [] v.t = "int" -> Digits(v.n)

\* sep.join(parts)
RECURSIVE Join(_, _)
Join(sep, parts) ==
    IF parts = <<>> THEN <<>>
    ELSE IF Len(parts) = 1 THEN parts[1]
    ELSE parts[1] \o sep \o Join(sep, Tail(parts))

NonEmpty(s) == s /= <<>>

S_null == <<"n", "u", "l", "l">>

\* json.dumps escaping of one character of a str
JsonChar(c) ==
    CASE c = "\n" -> <<"\\", "n">>
      [] c = "\"" -> <<"\\", "\"">>
      [] c = "\\" -> <<"\\", "\\">>
      [] OTHER -> <<c>>

RECURSIVE JsonEscape(_)
JsonEscape(s) == IF s = <<>> THEN <<>> ELSE JsonChar(Head(s)) \o JsonEscape(Tail(s))

JsonQuote(s) == <<"\"">> \o JsonEscape(s) \o <<"\"">>

\* json.dumps of a scalar
JsonScalar(v) ==
    CASE v.t = "none" -> S_null
      [] v.t = "str" -> JsonQuote(v.s)
      [] v.t = "int" -> Digits(v.n)

RECURSIVE JsonPairs(_)
JsonPairs(kv) ==
    IF kv = <<>> THEN <<>>
    ELSE <<JsonQuote(kv[1].k) \o <<":", " ">> \o JsonScalar(kv[1].v)>> \o JsonPairs(Tail(kv))

\* json.dumps(d, ensure_ascii=True) of a dict of scalars
json_dumps(d) == <<"{">> \o Join(<<",", " ">>, JsonPairs(d.kv)) \o <<"}">>

----------------------------------------------------------------------------
(* RequestAdapter._content_to_text *)

K_text == <<"t", "e", "x", "t">>
K_content == <<"c", "o", "n", "t", "e", "n", "t">>
NL == <<"\n">>

\* a plausible slip: fall back to "content" only when "text" is missing
text_value_by_presence(d) ==
    IF Get(d, K_text) /= None THEN Get(d, K_text) ELSE Get(d, K_content)

\* part.get("text") or part.get("content")
text_value(d) == PyOr(Get(d, K_text), Get(d, K_content))

\* text_value if isinstance(text_value, str) else str(text_value)
as_text(v) == IF v.t = "str" THEN v.s ELSE PyStr(v)

\* the for loop over the parts of a list: what it appends to `parts`
RECURSIVE content_parts(_)
content_parts(items) ==
    IF items = <<>> THEN <<>>
    ELSE LET part == Head(items)
             rest == content_parts(Tail(items))
         IN  IF part.t = "str" THEN <<part.s>> \o rest
             ELSE IF part.t = "dict"
                  THEN IF text_value(part) = None THEN rest
                       ELSE <<as_text(text_value(part))>> \o rest
             ELSE <<PyStr(part)>> \o rest

_content_to_text(content) ==
    IF content.t = "none" THEN <<>>
    ELSE IF content.t = "str" THEN content.s
    ELSE IF content.t = "list"
         THEN Join(NL, SelectSeq(content_parts(content.items), NonEmpty))
    ELSE IF content.t = "dict"
         THEN IF text_value(content) /= None
              THEN as_text(text_value(content))
              ELSE json_dumps(content)
    ELSE PyStr(content)

----------------------------------------------------------------------------
(* RequestAdapter._messages_to_responses_input_and_instructions             *)
(* A message is a record [role, content, tool_call_id, tool_calls]; a key  *)
(* the dict lacks reads as None, as m.get(...) gives it.  A tool call is   *)
(* [id, function |-> [name, arguments]].                                   *)

InstructionRoles == {Sym("system"), Sym("developer")}
BlankLine == <<"\n", "\n">>

\* the function_call_output item of a tool message
function_call_output_item(m) ==
    [type |-> "function_call_output",
     output |-> _content_to_text(m.content),
     status |-> "completed",
     call_id |-> m.tool_call_id]

\* a plausible slip: every turn tagged as caller input
content_type_always_input(role) == "input_text"

\* "input_text" if role == "user" else "output_text"
content_type(role) == IF role = Sym("user") THEN "input_text" ELSE "output_text"

\* the conversation-turn item of any other message
turn_item(m) ==
    [role |-> PyOr(m.role, Sym("user")),
     content |-> <<[type |-> content_type(m.role), text |-> _content_to_text(m.content)]>>]

function_call_item(tool_call) ==
    [type |-> "function_call",
     name |-> tool_call.function.name,
     arguments |-> tool_call.function.arguments,
     call_id |-> tool_call.id]

RECURSIVE function_call_items(_)
function_call_items(tool_calls) ==
    IF tool_calls = <<>> THEN <<>>
    ELSE <<function_call_item(Head(tool_calls))>> \o function_call_items(Tail(tool_calls))

\* what one pass of the loop body appends to input_items
message_items(m) ==
    IF m.role \in InstructionRoles THEN <<>>
    ELSE IF m.role = Sym("tool") THEN <<function_call_output_item(m)>>
    ELSE <<turn_item(m)>>
         \o (IF Truthy(m.tool_calls) THEN function_call_items(m.tool_calls.items) ELSE <<>>)

RECURSIVE input_items(_)
input_items(messages) ==
    IF messages = <<>> THEN <<>>
    ELSE message_items(Head(messages)) \o input_items(Tail(messages))

RECURSIVE instructions_parts(_)
instructions_parts(messages) ==
    IF messages = <<>> THEN <<>>
    ELSE (IF Head(messages).role \in InstructionRoles
          THEN <<_content_to_text(Head(messages).content)>> ELSE <<>>)
         \o instructions_parts(Tail(messages))

\* a plausible slip: an empty string where there is nothing to join
join_instructions_never_none(parts) == Str(Join(BlankLine, parts))

\* "\n\n".join(instructions_parts) if instructions_parts else None
join_instructions(parts) == IF parts /= <<>> THEN Str(Join(BlankLine, parts)) ELSE None

_messages_to_responses_input_and_instructions(messages) ==
    [instructions |-> join_instructions(instructions_parts(messages)),
     input |-> IF input_items(messages) /= <<>> THEN List(input_items(messages)) ELSE None]

----------------------------------------------------------------------------
(* RequestAdapter._transform_tools_for_responses                            *)
(* A tool is [function |-> None] or [function |-> [name, description,      *)
(* parameters]].                                                           *)

transformed_tool(tool) ==
    [type |-> "function",
     name |-> tool.function.name,
     description |-> tool.function.description,
     parameters |-> tool.function.parameters,
     strict |-> FALSE]

RECURSIVE transformed_tools(_)
transformed_tools(tools) ==
    IF tools = <<>> THEN <<>>
    ELSE <<transformed_tool(Head(tools))>> \o transformed_tools(Tail(tools))

\* function.get on a tool whose "function" is missing: AttributeError
transform_tools_raises(tools) ==
    tools.t = "list" /\ \E i \in 1..Len(tools.items) : tools.items[i].function = None

_transform_tools_for_responses(tools) ==
    IF tools.t /= "list" THEN List(<<>>) ELSE List(transformed_tools(tools.items))

----------------------------------------------------------------------------
(* RequestAdapter.adapt                                                     *)
(* The payload is None (no JSON body) or a dict, a record                  *)
(* [t |-> "dict", model, messages, tools, tool_choice, user] whose missing *)
(* keys read as None.  The settings are the record current_app.config.     *)

S_gpt == <<"g", "p", "t", "-">>
S_high == <<"h", "i", "g", "h">>
S_medium == <<"m", "e", "d", "i", "u", "m">>
S_low == <<"l", "o", "w">>
S_minimal == <<"m", "i", "n", "i", "m", "a", "l">>

UpperChars == <<"A", "B", "C", "D", "E", "F", "G", "H", "I", "J", "K", "L", "M",
                "N", "O", "P", "Q", "R", "S", "T", "U", "V", "W", "X", "Y", "Z">>
LowerChars == <<"a", "b", "c", "d", "e", "f", "g", "h", "i", "j", "k", "l", "m",
                "n", "o", "p", "q", "r", "s", "t", "u", "v", "w", "x", "y", "z">>

LowerChar(c) ==
    IF \E i \in 1..Len(UpperChars) : UpperChars[i] = c
    THEN LowerChars[CHOOSE i \in 1..Len(UpperChars) : UpperChars[i] = c]
    ELSE c

\* s.lower()
Lower(s) == [i \in 1..Len(s) |-> LowerChar(s[i])]

StartsWith(s, prefix) == Len(s) >= Len(prefix) /\ SubSeq(s, 1, Len(prefix)) = prefix

\* s.replace(old, ""): every occurrence, left to right, in one pass
RECURSIVE Remove(_, _)
Remove(s, old) ==
    IF s = <<>> THEN <<>>
    ELSE IF StartsWith(s, old) THEN Remove(SubSeq(s, Len(old) + 1, Len(s)), old)
    ELSE <<Head(s)>> \o Remove(Tail(s), old)

\* inbound_model.replace("gpt-", "").lower()
reasoning_effort(model) == Lower(Remove(model, S_gpt))

Efforts == {S_high, S_medium, S_low, S_minimal}
SummaryLevels == {"auto", "detailed", "concise"}
ForwardedVerbosity == {"low", "high"}

Absent == [t |-> "absent"]
NoKwargs == [t |-> "none"]

\* payload.get("model") if isinstance(payload, dict) else None
model_of(payload) == IF payload.t = "dict" THEN payload.model ELSE None

\* payload.get("messages") or [], then the isinstance(messages, list) test
body_of_messages(payload) ==
    LET messages == PyOr(payload.messages, List(<<>>))
    IN  IF messages.t = "list"
        THEN _messages_to_responses_input_and_instructions(messages.items)
        ELSE [input |-> None, instructions |-> None]

\* the dict responses_body as adapt leaves it
responses_body(payload, cfg) ==
    [instructions |-> body_of_messages(payload).instructions,
     input |-> body_of_messages(payload).input,
     model |-> cfg.AZURE_DEPLOYMENT,
     tools |-> _transform_tools_for_responses(payload.tools),
     tool_choice |-> payload.tool_choice,
     prompt_cache_key |-> payload.user,
     stream |-> TRUE,
     reasoning |-> [effort |-> reasoning_effort(payload.model.s),
                    summary |-> cfg.AZURE_SUMMARY_LEVEL],
     text |-> IF cfg.AZURE_VERBOSITY_LEVEL \in ForwardedVerbosity
              THEN Sym(cfg.AZURE_VERBOSITY_LEVEL) ELSE Absent,
     store |-> FALSE,
     stream_options |-> [include_obfuscation |-> FALSE],
     truncation |-> IF cfg.AZURE_TRUNCATION = "auto" THEN Sym("auto") ELSE Absent]

ConnectTimeout == 60

request_kwargs(payload, cfg) ==
    [t |-> "kwargs",
     method |-> "POST",
     url |-> cfg.AZURE_RESPONSES_API_URL,
     json |-> responses_body(payload, cfg),
     stream |-> TRUE,
     timeout |-> <<ConnectTimeout, None>>]

Returned(kw) == [exc |-> "none", got |-> None, kwargs |-> kw]
Raised(exc, got) == [exc |-> exc, got |-> got, kwargs |-> NoKwargs]

\* adapt from the line after inbound_model is stored: what it returns or raises
adapt_result(payload, cfg) ==
    IF payload.t /= "dict" THEN Raised("AttributeError", None)
    ELSE IF transform_tools_raises(payload.tools) THEN Raised("AttributeError", None)
    ELSE IF payload.model.t /= "str" THEN Raised("AttributeError", None)
    ELSE IF reasoning_effort(payload.model.s) \notin Efforts
         THEN Raised("CursorConfigurationError", payload.model)
    ELSE IF cfg.AZURE_SUMMARY_LEVEL \notin SummaryLevels
         THEN Raised("ServiceConfigurationError", Sym(cfg.AZURE_SUMMARY_LEVEL))
    ELSE Returned(request_kwargs(payload, cfg))

----------------------------------------------------------------------------
(* AzureAdapter._handle_azure_error                                         *)

S_no_instructions == <<"n", "o", " ", "i", "n", "s", "t", "r", "u", "c", "t", "i", "o", "n", "s">>
S_ellipsis == <<".", ".", ".">>
S_redacted == <<".", ".", ".", "r", "e", "d", "a", "c", "t", "e", "d", " ">>
S_tools == <<" ", "t", "o", "o", "l", "s", ".", ".", ".">>
S_input_items == <<" ", "i", "n", "p", "u", "t", " ", "i", "t", "e", "m", "s", ".", ".", ".">>
S_no_prompt_cache_key == <<"n", "o", " ", "p", "r", "o", "m", "p", "t", "_", "c", "a", "c", "h", "e", "_", "k", "e", "y">>
S_mask == <<"*", "*", "*">>

PreviewLen == 16
GroupLen == 3

\* s[:n]
Take(s, n) == SubSeq(s, 1, IF Len(s) < n THEN Len(s) ELSE n)

\* the last index of the run of characters "." matches (any but a newline)
\* that starts at i; i - 1 when s[i] is a newline or i is past the end
RECURSIVE RunEnd(_, _)
RunEnd(s, i) == IF i > Len(s) \/ s[i] = "\n" THEN i - 1 ELSE RunEnd(s, i + 1)

\* re.sub(r"(...)(.*)(...)", "\\1***\\3", s) from index i on: a match at i
\* needs six characters of one line, the greedy (.*) takes the line to its
\* last three, and what no match covers is copied
RECURSIVE re_sub_from(_, _)
re_sub_from(s, i) ==
    IF i > Len(s) THEN <<>>
    ELSE LET e == RunEnd(s, i)
         IN  IF e - i + 1 >= 2 * GroupLen
             THEN SubSeq(s, i, i + GroupLen - 1) \o S_mask \o SubSeq(s, e - GroupLen + 1, e)
                  \o re_sub_from(s, e + 1)
             ELSE <<s[i]>> \o re_sub_from(s, i + 1)

redact_key(s) == re_sub_from(s, 1)

\* len(v) if isinstance(v, list) else 0 if not v else 1
count_of(v) == IF v.t = "list" THEN Len(v.items) ELSE IF ~Truthy(v) THEN 0 ELSE 1

\* "no instructions" if not instructions else str(instructions)
instructions_preview(instructions) ==
    IF ~Truthy(instructions) THEN S_no_instructions ELSE PyStr(instructions)

\* request_kwargs.get("json", {})
json_of(kw) == IF kw.t = "kwargs" THEN kw.json ELSE Dict(<<>>)

\* the body after the four assignments of _handle_azure_error
redacted_body(body) ==
    [body EXCEPT
        !.instructions = Str(Take(instructions_preview(body.instructions), PreviewLen) \o S_ellipsis),
        !.tools = Str(S_redacted \o Digits(count_of(body.tools)) \o S_tools),
        !.input = Str(S_redacted \o Digits(count_of(body.input)) \o S_input_items),
        !.prompt_cache_key =
            Str(redact_key(PyStr(PyOr(body.prompt_cache_key, Str(S_no_prompt_cache_key)))))]

\* a plausible slip: the vendor's status passed through as it is
status_unmapped(status_code) == status_code

\* resp.status_code if resp.status_code != 401 else 400
status_for_caller(status_code) == IF status_code /= 401 THEN status_code ELSE 400

\* the Response _handle_azure_error returns; "request_body" is the body dict itself
error_response(status_code, body) ==
    [t |-> "response",
     via |-> "error_report",
     status |-> status_for_caller(status_code),
     report |-> [azure_status_code |-> status_code, request_body |-> redacted_body(body)]]

----------------------------------------------------------------------------
(* Inputs *)

NumRequests == 2
MaxMsgs == 3
MaxModelParts == 3
MaxParts == 2
MaxKeyLen == 7

Requests == 1..NumRequests

SeqsUpTo(S, n) == UNION {[1..k -> S] : k \in 0..n}

Concat(parts) == Join(<<>>, parts)

Pending == [t |-> "pending"]

BaseSettings ==
    [AZURE_DEPLOYMENT |-> "gpt-5", AZURE_RESPONSES_API_URL |-> "https://example.openai.azure.com/",
     AZURE_SUMMARY_LEVEL |-> "auto", AZURE_VERBOSITY_LEVEL |-> "medium", AZURE_TRUNCATION |-> "auto"]

SettingsSet ==
    {BaseSettings,
     [BaseSettings EXCEPT !.AZURE_SUMMARY_LEVEL = "loud", !.AZURE_TRUNCATION = "disabled"],
     [BaseSettings EXCEPT !.AZURE_SUMMARY_LEVEL = "concise", !.AZURE_VERBOSITY_LEVEL = "high"],
     [BaseSettings EXCEPT !.AZURE_SUMMARY_LEVEL = "detailed", !.AZURE_VERBOSITY_LEVEL = "low",
                          !.AZURE_TRUNCATION = "disabled"]}

FwdSettings ==
    {BaseSettings, [BaseSettings EXCEPT !.AZURE_SUMMARY_LEVEL = "loud"]}

(* content values *)
ScalarParts == {None, Str(<<>>), Str(<<"h", "i">>), Num(0), Num(7)}
TextFields == {Absent, None, Str(<<>>), Str(<<"T">>), Num(0), Num(5)}
ContentFields == {Absent, None, Str(<<>>), Str(<<"C">>)}
K_type == <<"t", "y", "p", "e">>

\* the dict {"type": "x", "text": text, "content": content} without the keys that are Absent
PartDict(text, content) ==
    Dict(<<KV(K_type, Str(<<"x">>))>>
         \o (IF text = Absent THEN <<>> ELSE <<KV(K_text, text)>>)
         \o (IF content = Absent THEN <<>> ELSE <<KV(K_content, content)>>))

Dicts == {PartDict(text, content) : text \in TextFields, content \in ContentFields}

ListParts ==
    ScalarParts
    \cup {PartDict(Str(<<"T">>), Absent), PartDict(Str(<<>>), Str(<<"C">>)),
          PartDict(Absent, Str(<<"C">>)), PartDict(Absent, Absent),
          PartDict(Num(0), Absent), PartDict(Num(5), Str(<<"C">>)),
          PartDict(None, Str(<<>>))}

Contents ==
    ScalarParts \cup Dicts \cup {List(items) : items \in SeqsUpTo(ListParts, MaxParts)}

(* messages *)
Message(role, content, tool_call_id, tool_calls) ==
    [role |-> role, content |-> content, tool_call_id |-> tool_call_id, tool_calls |-> tool_calls]

ToolCall(id, name, arguments) ==
    [id |-> Sym(id), function |-> [name |-> Sym(name), arguments |-> Sym(arguments)]]

M_system == Message(Sym("system"), Str(<<"b", "e">>), None, None)
M_developer ==
    Message(Sym("developer"), List(<<Str(<<"a">>), PartDict(Str(<<"b">>), Absent)>>), None, None)
M_system_empty == Message(Sym("system"), None, None, None)
M_user == Message(Sym("user"), Str(<<"h", "i">>), None, None)
M_assistant_calls ==
    Message(Sym("assistant"), None, None,
            List(<<ToolCall("c1", "read", "{}"), ToolCall("c2", "write", "{}")>>))
M_tool == Message(Sym("tool"), Str(<<"o", "k">>), Sym("abc"), None)
M_no_role == Message(None, Str(<<"x">>), None, None)

MsgAlphabet ==
    {M_system, M_developer, M_system_empty, M_user, M_assistant_calls, M_tool, M_no_role}

MessageLists == SeqsUpTo(MsgAlphabet, MaxMsgs)

(* tools *)
Tool(name) ==
    [function |-> [name |-> Sym(name), description |-> Sym("d"), parameters |-> Dict(<<>>)]]

ToolsValues ==
    {None, Str(<<"x">>), List(<<>>), List(<<Tool("read")>>), List(<<Tool("read"), Tool("write")>>),
     List(<<[function |-> None]>>)}

(* model names *)
S_GPT == <<"G", "P", "T", "-">>
S_Low == <<"L", "o", "w">>
S_hi == <<"h", "i">>
S_gh == <<"g", "h">>
S_x == <<"x">>
S_extreme == <<"e", "x", "t", "r", "e", "m", "e">>

ModelTokens == {S_gpt, S_GPT, S_low, S_Low, S_hi, S_gh, S_medium, S_x}

Models ==
    {None, Num(5)}
    \cup {Str(Concat(parts)) : parts \in SeqsUpTo(ModelTokens, MaxModelParts)}

Payload(model, messages, tools, user) ==
    [t |-> "dict", model |-> model, messages |-> messages, tools |-> tools,
     tool_choice |-> Sym("auto"), user |-> user]

S_abcdefgh == <<"a", "b", "c", "d", "e", "f", "g", "h">>
GptHigh == Str(S_gpt \o S_high)
GptLow == Str(S_gpt \o S_low)

(* what SpecAdapt applies adapt to: a payload and the settings *)
AdaptInputs ==
    {[payload |-> Payload(model, List(<<M_user>>), None, None), settings |-> BaseSettings] :
        model \in Models}
    \cup {[payload |-> Payload(GptLow, List(messages), List(<<Tool("read")>>), Str(S_abcdefgh)),
           settings |-> BaseSettings] : messages \in MessageLists}
    \cup {[payload |-> payload, settings |-> cfg] :
            payload \in {None, List(<<>>)}
                        \cup {Payload(model, messages, tools, None) :
                                model \in {GptHigh, Str(S_gpt \o S_extreme)},
                                messages \in {None, Str(<<"h", "i">>), List(<<M_system, M_user>>)},
                                tools \in ToolsValues},
            cfg \in SettingsSet}

(* what SpecError applies _handle_azure_error to: a status and the kwargs adapt built *)
KeyAlphabet == {"a", "b", "\n"}

Keys ==
    {None, Num(0), Num(12345), Num(1234567), Str(S_abcdefgh)}
    \cup {Str(s) : s \in SeqsUpTo(KeyAlphabet, MaxKeyLen)}

ErrorStatuses == {401, 500}

ErrorInputs ==
    {[status_code |-> s,
      kwargs |-> request_kwargs(Payload(GptLow, List(messages), tools, key), BaseSettings)] :
        s \in ErrorStatuses, key \in Keys,
        messages \in {<<M_user>>}, tools \in {List(<<Tool("read")>>)}}
    \cup {[status_code |-> s,
           kwargs |-> request_kwargs(Payload(GptLow, messages, tools, Str(S_abcdefgh)), BaseSettings)] :
            s \in ErrorStatuses,
            messages \in {None, List(<<M_user>>), List(<<M_system, M_user, M_assistant_calls>>),
                          List(<<Message(Sym("system"), Str(S_no_prompt_cache_key), None, None)>>)},
            tools \in ToolsValues \ {List(<<[function |-> None]>>)}}

(* what the forward specification draws each request's payload from *)
FwdPayloads ==
    {Payload(GptHigh, List(<<M_system, M_user>>), List(<<Tool("read")>>), Str(S_abcdefgh)),
     Payload(GptLow, List(<<M_user>>), None, None),
     Payload(Str(S_gpt \o S_extreme), List(<<M_user>>), None, None)}

VendorStatuses == {200, 400, 401, 404, 429, 500}

----------------------------------------------------------------------------
(* AzureAdapter.forward, one call per inbound request r, all on one adapter *)

\* a plausible slip: a failed translation does not stop forward
after_adapt_swallowing(res) == "adapted"

\* where forward stands once adapt has returned or raised
after_adapt(res) == IF res.exc /= "none" THEN "done" ELSE "adapted"

\* adapt: self.adapter.inbound_model = None
AdaptReset(r) ==
    /\ pc[r] = "idle"
    /\ inbound_model' = None
    /\ pc' = [pc EXCEPT ![r] = "reset"]
    /\ UNCHANGED <<settings, req, kwargs, built, recorded, calls, resp, outcome, fn, arg, ret>>

\* adapt: payload = req.get_json(...); self.adapter.inbound_model = inbound_model
AdaptRecordModel(r) ==
    /\ pc[r] = "reset"
    /\ inbound_model' = model_of(req[r])
    /\ pc' = [pc EXCEPT ![r] = "model_recorded"]
    /\ UNCHANGED <<settings, req, kwargs, built, recorded, calls, resp, outcome, fn, arg, ret>>

\* adapt: the rest of it, building request_kwargs or raising
AdaptBuild(r) ==
    /\ pc[r] = "model_recorded"
    /\ LET res == adapt_result(req[r], settings)
       IN  /\ kwargs' = [kwargs EXCEPT ![r] = res.kwargs]
           /\ built' = [built EXCEPT ![r] = IF res.exc = "none" THEN res.kwargs.json ELSE None]
           /\ outcome' = [outcome EXCEPT ![r] =
                            IF res.exc = "none" THEN None
                            ELSE [t |-> "raised", exc |-> res.exc, got |-> res.got]]
           /\ pc' = [pc EXCEPT ![r] = after_adapt(res)]
    /\ UNCHANGED <<inbound_model, settings, req, recorded, calls, resp, fn, arg, ret>>

\* record_payload(request_kwargs.get("json", {}), "upstream_request")
RecordPayload(r) ==
    /\ pc[r] = "adapted"
    /\ recorded' = [recorded EXCEPT ![r] = json_of(kwargs[r])]
    /\ pc' = [pc EXCEPT ![r] = "recorded"]
    /\ UNCHANGED <<inbound_model, settings, req, kwargs, built, calls, resp, outcome, fn, arg, ret>>

\* requests.request(**request_kwargs) is called
Dispatch(r) ==
    /\ pc[r] = "recorded"
    /\ calls' = [calls EXCEPT ![r] = calls[r] + 1]
    /\ pc' = [pc EXCEPT ![r] = "in_flight"]
    /\ UNCHANGED <<inbound_model, settings, req, kwargs, built, recorded, resp, outcome, fn, arg, ret>>

\* requests.request returns the vendor's reply
Receive(r) ==
    /\ pc[r] = "in_flight"
    /\ \E s \in VendorStatuses :
          resp' = [resp EXCEPT ![r] = [t |-> "response", status_code |-> s]]
    /\ pc' = [pc EXCEPT ![r] = "responded"]
    /\ UNCHANGED <<inbound_model, settings, req, kwargs, built, recorded, calls, outcome, fn, arg, ret>>

\* requests.request raises (no connection, connect timeout): forward has no
\* handler, the exception leaves it
TransportFailure(r) ==
    /\ pc[r] = "in_flight"
    /\ \E exc \in {"ConnectionError", "ConnectTimeout"} :
          /\ resp' = [resp EXCEPT ![r] = [t |-> "exception", exc |-> exc]]
          /\ outcome' = [outcome EXCEPT ![r] = [t |-> "raised", exc |-> exc, got |-> None]]
    /\ pc' = [pc EXCEPT ![r] = "done"]
    /\ UNCHANGED <<inbound_model, settings, req, kwargs, built, recorded, calls, fn, arg, ret>>

\* if resp.status_code != 200: return self._handle_azure_error(resp, request_kwargs)
HandleAzureError(r) ==
    /\ pc[r] = "responded"
    /\ resp[r].status_code /= 200
    /\ kwargs' = [kwargs EXCEPT ![r].json = redacted_body(json_of(kwargs[r]))]
    /\ outcome' = [outcome EXCEPT ![r] = error_response(resp[r].status_code, json_of(kwargs[r]))]
    /\ pc' = [pc EXCEPT ![r] = "done"]
    /\ UNCHANGED <<inbound_model, settings, req, built, recorded, calls, resp, fn, arg, ret>>

\* return self.response_adapter.adapt(resp)
ResponseAdapt(r) ==
    /\ pc[r] = "responded"
    /\ resp[r].status_code = 200
    /\ outcome' = [outcome EXCEPT ![r] = [t |-> "response", via |-> "response_adapter"]]
    /\ pc' = [pc EXCEPT ![r] = "done"]
    /\ UNCHANGED <<inbound_model, settings, req, kwargs, built, recorded, calls, resp, fn, arg, ret>>

Init ==
    /\ inbound_model = None
    /\ settings \in FwdSettings
    /\ req \in [Requests -> FwdPayloads]
    /\ pc = [r \in Requests |-> "idle"]
    /\ kwargs = [r \in Requests |-> NoKwargs]
    /\ built = [r \in Requests |-> None]
    /\ recorded = [r \in Requests |-> None]
    /\ calls = [r \in Requests |-> 0]
    /\ resp = [r \in Requests |-> None]
    /\ outcome = [r \in Requests |-> None]
    /\ fn = "forward"
    /\ arg = None
    /\ ret = None

Next ==
    \E r \in Requests :
        \/ AdaptReset(r)
        \/ AdaptRecordModel(r)
        \/ AdaptBuild(r)
        \/ RecordPayload(r)
        \/ Dispatch(r)
        \/ Receive(r)
        \/ TransportFailure(r)
        \/ HandleAzureError(r)
        \/ ResponseAdapt(r)

Spec == Init /\ [][Next]_vars

----------------------------------------------------------------------------
(* One call of one function on one input *)

NoRequests ==
    /\ req = [r \in Requests |-> None]
    /\ pc = [r \in Requests |-> "idle"]
    /\ kwargs = [r \in Requests |-> NoKwargs]
    /\ built = [r \in Requests |-> None]
    /\ recorded = [r \in Requests |-> None]
    /\ calls = [r \in Requests |-> 0]
    /\ resp = [r \in Requests |-> None]
    /\ outcome = [r \in Requests |-> None]

InitContent ==
    /\ fn = "_content_to_text"
    /\ arg \in Contents
    /\ ret = Pending
    /\ inbound_model = None
    /\ settings = BaseSettings
    /\ NoRequests

ContentToTextCall ==
    /\ fn = "_content_to_text"
    /\ ret = Pending
    /\ ret' = Str(_content_to_text(arg))
    /\ UNCHANGED <<fn, arg, fwdvars>>

SpecContent == InitContent /\ [][ContentToTextCall]_vars

InitAdapt ==
    /\ fn = "adapt"
    /\ \E in \in AdaptInputs : arg = in.payload /\ settings = in.settings
    /\ ret = Pending
    /\ inbound_model \in {None, GptHigh}
    /\ NoRequests

\* adapt as one call: the reset, the stored model, then the result
AdaptCall ==
    /\ fn = "adapt"
    /\ ret = Pending
    /\ inbound_model' = model_of(arg)
    /\ ret' = adapt_result(arg, settings)
    /\ UNCHANGED <<fn, arg, settings, req, pc, kwargs, built, recorded, calls, resp, outcome>>

SpecAdapt == InitAdapt /\ [][AdaptCall]_vars

InitError ==
    /\ fn = "_handle_azure_error"
    /\ arg \in ErrorInputs
    /\ ret = Pending
    /\ inbound_model = GptLow
    /\ settings = BaseSettings
    /\ NoRequests

\* _handle_azure_error as one call: the body it leaves in request_kwargs and
\* the Response it returns
HandleAzureErrorCall ==
    /\ fn = "_handle_azure_error"
    /\ ret = Pending
    /\ ret' = [request_kwargs |-> [arg.kwargs EXCEPT !.json = redacted_body(json_of(arg.kwargs))],
               response |-> error_response(arg.status_code, json_of(arg.kwargs))]
    /\ UNCHANGED <<fn, arg, fwdvars>>

SpecError == InitError /\ [][HandleAzureErrorCall]_vars

----------------------------------------------------------------------------
(* Properties *)

TranslationErrors == {"CursorConfigurationError", "ServiceConfigurationError", "AttributeError"}

\* C1: every inbound request gets at most one outbound call; a call is issued
\* only once adapt has returned its request_kwargs; a request whose adapt
\* raised never gets a call; a request past dispatch has exactly one call,
\* also after a non-200 reply (no retry).
C1_OneCallAfterTranslation ==
    \A r \in Requests :
        /\ calls[r] <= 1
        /\ calls[r] >= 1 => built[r] /= None /\ kwargs[r].t = "kwargs"
        /\ (outcome[r].t = "raised" /\ outcome[r].exc \in TranslationErrors) => calls[r] = 0
        /\ pc[r] \in {"in_flight", "responded"} => calls[r] = 1
        /\ (pc[r] = "done" /\ built[r] /= None) => calls[r] = 1
        /\ (pc[r] = "done" /\ built[r] = None) => calls[r] = 0

\* one request answered with the vendor's 500 after a single call, another
\* refused by adapt without any call
C1_Witness ==
    \E r, q \in Requests :
        /\ pc[r] = "done" /\ resp[r].t = "response" /\ resp[r].status_code = 500
        /\ outcome[r].t = "response" /\ calls[r] = 1
        /\ pc[q] = "done" /\ outcome[q].t = "raised"
        /\ outcome[q].exc = "CursorConfigurationError" /\ calls[q] = 0

\* C2: from the step of adapt that stores a request's model until forward ends
\* for that request, the adapter's inbound_model is that request's own model.
C2_OwnModelVisible ==
    \A r \in Requests :
        pc[r] \in {"model_recorded", "adapted", "recorded", "in_flight", "responded"}
            => inbound_model = model_of(req[r])

\* C3: once the outbound call has returned, forward hands the reply to the
\* response adapter exactly when the vendor status is 200; any other status s
\* comes back as the diagnostic response with status s, 401 as 400, so never 401.
C3_StatusMapping ==
    \A r \in Requests :
        (pc[r] = "done" /\ resp[r].t = "response") =>
            LET s == resp[r].status_code
            IN  /\ outcome[r].t = "response"
                /\ (s = 200) <=> (outcome[r].via = "response_adapter")
                /\ s /= 200 =>
                    /\ outcome[r].via = "error_report"
                    /\ outcome[r].status = (IF s = 401 THEN 400 ELSE s)
                    /\ outcome[r].status /= 401
                    /\ outcome[r].report.azure_status_code = s

\* a vendor 401 answered to the caller as 400
C3_Witness ==
    \E r \in Requests :
        /\ pc[r] = "done" /\ resp[r].t = "response" /\ resp[r].status_code = 401
        /\ outcome[r].via = "error_report" /\ outcome[r].status = 400

FirstThree(s) == SubSeq(s, 1, IF Len(s) < 3 THEN Len(s) ELSE 3)
LastThree(s) == SubSeq(s, IF Len(s) < 3 THEN 1 ELSE Len(s) - 2, Len(s))

\* C4: the prompt_cache_key written into the diagnostic report is the key's
\* first three characters, "***" and its last three characters, never the raw
\* key, whatever the key's length; without a key it is "no prompt_cache_key".
C4_KeyRedacted ==
    ret /= Pending =>
        LET key == json_of(arg.kwargs).prompt_cache_key
            reported == ret.response.report.request_body.prompt_cache_key
        IN  /\ key = None => reported = Str(S_no_prompt_cache_key)
            /\ key.t = "str" =>
                /\ reported = Str(FirstThree(key.s) \o S_mask \o LastThree(key.s))
                /\ reported /= key

\* the payloads of the data model: a dict whose model is a string and whose
\* tools, when a list, are tool definitions
WellFormed(payload) ==
    /\ payload.t = "dict"
    /\ payload.model.t = "str"
    /\ ~transform_tools_raises(payload.tools)

StripPrefix(s) == IF StartsWith(s, S_gpt) THEN SubSeq(s, Len(S_gpt) + 1, Len(s)) ELSE s

\* C5: adapt strips the "gpt-" prefix of the model and lowercases the rest;
\* when that is one of high, medium, low, minimal it is reasoning.effort, and
\* for every other model adapt fails with the ConfigurationError naming the
\* model; adapt fails in no other way than with one of the two
\* configuration errors.
C5_ModelToEffort ==
    (ret /= Pending /\ WellFormed(arg)) =>
        LET effort == Lower(StripPrefix(arg.model.s))
        IN  /\ ret.exc \in {"none", "CursorConfigurationError", "ServiceConfigurationError"}
            /\ effort \in Efforts =>
                /\ ret.exc /= "CursorConfigurationError"
                /\ ret.exc = "none" => ret.kwargs.json.reasoning.effort = effort
            /\ effort \notin Efforts =>
                /\ ret.exc = "CursorConfigurationError"
                /\ ret.got = arg.model

\* C6: a transport failure of the outbound call ends forward with a response
\* to the caller, not with an exception leaving forward.
C6_TransportFailureCaught ==
    \A r \in Requests :
        (pc[r] = "done" /\ resp[r].t = "exception") => outcome[r].t = "response"

IsInstructionMessage(m) == m.role \in InstructionRoles
IsInputMessage(m) == m.role \notin InstructionRoles
MessagesOf(payload) == IF payload.messages.t = "list" THEN payload.messages.items ELSE <<>>

ItemCount(m) ==
    IF m.role \in InstructionRoles THEN 0
    ELSE IF m.role = Sym("tool") THEN 1
    ELSE 1 + (IF m.tool_calls.t = "list" THEN Len(m.tool_calls.items) ELSE 0)

RECURSIVE ItemsBefore(_, _)
ItemsBefore(msgs, i) ==
    IF i <= 1 THEN 0 ELSE ItemsBefore(msgs, i - 1) + ItemCount(msgs[i - 1])

ItemsOf(input) == IF input.t = "list" THEN input.items ELSE <<>>

\* C8: the input items follow the order of the inbound messages: a tool
\* message stands for one function_call_output (its tool_call_id, status
\* "completed"); any other message that is not system or developer stands for
\* one turn, tagged input_text for role user and output_text otherwise,
\* followed at once by one function_call per tool call, in order; the items of
\* a message come before those of every later message.
C8_InputOrder ==
    (ret /= Pending /\ ret.exc = "none") =>
        LET msgs == MessagesOf(arg)
            items == ItemsOf(ret.kwargs.json.input)
        IN  /\ Len(items) = ItemsBefore(msgs, Len(msgs) + 1)
            /\ \A i \in 1..Len(msgs) :
                LET m == msgs[i]
                    at == ItemsBefore(msgs, i) + 1
                IN  IF m.role \in InstructionRoles THEN TRUE
                    ELSE IF m.role = Sym("tool")
                    THEN items[at] = [type |-> "function_call_output",
                                      output |-> _content_to_text(m.content),
                                      status |-> "completed",
                                      call_id |-> m.tool_call_id]
                    ELSE /\ DOMAIN items[at] = {"role", "content"}
                         /\ Len(items[at].content) = 1
                         /\ items[at].content[1].type
                              = (IF m.role = Sym("user") THEN "input_text" ELSE "output_text")
                         /\ items[at].content[1].text = _content_to_text(m.content)
                         /\ \A k \in 1..(ItemCount(m) - 1) :
                              items[at + k] = [type |-> "function_call",
                                               name |-> m.tool_calls.items[k].function.name,
                                               arguments |-> m.tool_calls.items[k].function.arguments,
                                               call_id |-> m.tool_calls.items[k].id]

\* an assistant turn with two tool calls, the tool's answer, then a user turn
C8_Witness ==
    /\ ret /= Pending /\ ret.exc = "none"
    /\ MessagesOf(arg) = <<M_assistant_calls, M_tool, M_user>>
    /\ Len(ItemsOf(ret.kwargs.json.input)) = 5
    /\ ItemsOf(ret.kwargs.json.input)[3].call_id = Sym("c2")
    /\ ItemsOf(ret.kwargs.json.input)[4].call_id = Sym("abc")
    /\ ItemsOf(ret.kwargs.json.input)[5].content[1].type = "input_text"

\* a field that is there and is not null
Has(d, k) == Get(d, k) /= None

\* the value a structured part or object stands for, read by presence
ValueByPresence(d) ==
    IF Has(d, K_text) THEN Get(d, K_text)
    ELSE IF Has(d, K_content) THEN Get(d, K_content)
    ELSE None

\* ... and read as the code reads it: "text" only when it is truthy
ValueByTruth(d) == IF Truthy(Get(d, K_text)) THEN Get(d, K_text) ELSE Get(d, K_content)

\* how a reading of the rules takes the value: by presence or by truth
ValueBy(d, reading) == IF reading = "presence" THEN ValueByPresence(d) ELSE ValueByTruth(d)

RECURSIVE PartsBy(_, _)
PartsBy(items, reading) ==
    IF items = <<>> THEN <<>>
    ELSE (IF Head(items).t = "dict"
          THEN (IF ValueBy(Head(items), reading) = None THEN <<>>
                ELSE <<PyStr(ValueBy(Head(items), reading))>>)
          ELSE <<PyStr(Head(items))>>)
         \o PartsBy(Tail(items), reading)

NormalizedBy(content, reading) ==
    CASE content.t = "none" -> <<>>
      [] content.t = "str" -> content.s
      [] content.t = "list" -> Join(NL, SelectSeq(PartsBy(content.items, reading), NonEmpty))
      [] content.t = "dict" ->
            IF ValueBy(content, reading) = None THEN json_dumps(content)
            ELSE PyStr(ValueBy(content, reading))
      [] OTHER -> PyStr(content)

\* C9 as stated: a structured part or object stands for its "text" field when
\* that field is present, otherwise for its "content" field.
C9_ByPresence ==
    ret /= Pending => ret = Str(NormalizedBy(arg, "presence"))

\* C9: the normalizer returns a string for every content shape: absent gives
\* the empty string; a string itself; a list the newline-join of its non-empty
\* parts, a structured part standing for its "text" field when that is truthy
\* (not null, empty or zero), otherwise for its "content" field, and skipped
\* when that leaves nothing; a structured object the same value, or its JSON
\* serialization when that leaves nothing; anything else its str().
C9_Normalizer ==
    ret /= Pending => ret = Str(NormalizedBy(arg, "truth"))

\* an object whose "text" is the empty string and whose "content" is "C"
C9_Witness ==
    /\ ret = Str(<<"C">>)
    /\ arg = PartDict(Str(<<>>), Str(<<"C">>))

\* C10: the body adapt built is the same after forward as when adapt returned
\* it and as when it was handed to the recorder.
C10_BodyNeverMutated ==
    \A r \in Requests :
        built[r] /= None =>
            /\ json_of(kwargs[r]) = built[r]
            /\ recorded[r] /= None => recorded[r] = built[r]

====
